---- MODULE Spec2Model ----
(***************************************************************************)
(* Placement-coordinator backend (server/controller/coordinators.js):      *)
(*   - registerStudentsFromFile: bulk student ingestion from CSV / Excel   *)
(*   - deleteCompany: cascading deletion with best-effort resume cleanup   *)
(*   - downloadAllResumesZip / downloadCompanyResumesZip: zip links        *)
(* Each handler is an async function; one action of the model is the code  *)
(* that runs between two await points.                                     *)
(* SpecIngest serves ingestion requests one after another; SpecCascade     *)
(* serves deleteCompany and zip requests one after another, the destroy    *)
(* tasks of one deleteCompany settling concurrently, in any order.         *)
(***************************************************************************)
EXTENDS Integers, Sequences, FiniteSets, TLC

\* ------------------------------------------------------------------ bounds
MaxRows == 2        \* rows per uploaded file
MaxRequests == 2    \* ingestion requests served one after another
MaxApps == 2        \* application documents in the collection
MaxCompanyRequests == 2  \* createCompany / updateCompany requests in flight together

\* ------------------------------------------------------- JavaScript values
\* The JavaScript value undefined (a property that is not there).
Undefined == "<undefined>"

\* !v for the values a cell or a field can hold (strings and undefined).
Falsy(v) == v = Undefined \/ v = ""

\* ------------------------------------------------------- string functions
RECURSIVE MapChars(_, _)
\* Applies the character map f to every character of s (characters outside
\* the domain of f are kept).
MapChars(f, s) ==
    IF Len(s) = 0 THEN ""
    ELSE LET c == SubSeq(s, 1, 1)
         IN  (IF c \in DOMAIN f THEN f[c] ELSE c) \o MapChars(f, SubSeq(s, 2, Len(s)))

UpperToLower ==
    [c \in {"A", "C", "E", "M", "N", "R", "S"} |->
        CASE c = "A" -> "a" [] c = "C" -> "c" [] c = "E" -> "e" [] c = "M" -> "m"
          [] c = "N" -> "n" [] c = "R" -> "r" [] c = "S" -> "s"]

\* String.prototype.toLowerCase, on the alphabet of the model's strings.
ToLowerCase(s) == MapChars(UpperToLower, s)

RECURSIVE TrimStart(_)
TrimStart(s) ==
    IF Len(s) > 0 /\ SubSeq(s, 1, 1) = " " THEN TrimStart(SubSeq(s, 2, Len(s))) ELSE s

RECURSIVE TrimEnd(_)
TrimEnd(s) ==
    IF Len(s) > 0 /\ SubSeq(s, Len(s), Len(s)) = " "
    THEN TrimEnd(SubSeq(s, 1, Len(s) - 1)) ELSE s

\* String.prototype.trim
Trim(s) == TrimEnd(TrimStart(s))

AlnumChars ==
    {"a", "b", "c", "d", "e", "f", "g", "h", "i", "j", "k", "l", "m", "n", "o", "p",
     "q", "r", "s", "t", "u", "v", "w", "x", "y", "z",
     "0", "1", "2", "3", "4", "5", "6", "7", "8", "9"}

RECURSIVE StripNonAlnum(_)
\* s.replace(/[^a-z0-9]/g, '')
StripNonAlnum(s) ==
    IF Len(s) = 0 THEN ""
    ELSE LET c == SubSeq(s, 1, 1)
         IN  (IF c \in AlnumChars THEN c ELSE "") \o StripNonAlnum(SubSeq(s, 2, Len(s)))

\* k.toString().trim().toLowerCase()
TrimLower(s) == ToLowerCase(Trim(s))

\* k.toString().trim().toLowerCase().replace(/[^a-z0-9]/g, '')
NormKey(s) == StripNonAlnum(TrimLower(s))

\* String.prototype.startsWith
StartsWith(s, p) == Len(s) >= Len(p) /\ SubSeq(s, 1, Len(p)) = p

\* ------------------------------------------------------------ input files
\* A raw row is what the tabular decoder hands over: the file's headers, in
\* column order, each with the row's cell: <<[k |-> header, v |-> cell], ...>>.
CanonicalHeaders == <<"name", "email", "role">>
VariantHeaders == <<"Student Name", "E-Mail", "Role">>
HeaderRows == {CanonicalHeaders, VariantHeaders}

NameCells == {"", "A"}
EmailCells == {"", "a@x.com", "b@x.com"}
RoleCells == {"", "student", " Coordinator", "admin"}

Cells == NameCells \X EmailCells \X RoleCells

RawRow(h, c) == [j \in 1..3 |-> [k |-> h[j], v |-> c[j]]]

BatchesOf(h) ==
    UNION {[1..n -> {RawRow(h, c) : c \in Cells}] : n \in 0..MaxRows}

\* req.file of a request: absent, or the uploaded file (its extension and rows).
NoFile == [present |-> FALSE, ext |-> "", rows |-> <<>>]

Files ==
    {NoFile}
    \cup {[present |-> TRUE, ext |-> "pdf", rows |-> <<>>]}
    \cup {[present |-> TRUE, ext |-> e, rows |-> b] :
            e \in {"csv", "xlsx"}, b \in UNION {BatchesOf(h) : h \in HeaderRows}}

\* ------------------------------------------------------------- decoders
\* raw[key] of a decoded row object; undefined when the key is not there.
RawGet(raw, key) ==
    IF \E j \in 1..Len(raw) : raw[j].k = key
    THEN raw[CHOOSE j \in 1..Len(raw) : raw[j].k = key].v
    ELSE Undefined

\* Every raw row a file of the model can hold.
RawRows == {RawRow(h, c) : h \in HeaderRows, c \in Cells}

\* One row as csv-parser emits it, keyed by the file's own headers, and as the
\* handler reads it: .name, .email and .role.
CsvRow ==
    [raw \in RawRows |->
        [name |-> RawGet(raw, "name"),
         email |-> RawGet(raw, "email"),
         role |-> RawGet(raw, "role")]]

\* parseCSVFile: the rows in file order, unchanged.
parseCSVFile(rows) == [j \in 1..Len(rows) |-> CsvRow[rows[j]]]

\* Object.keys(raw).find(k => k.trim().toLowerCase() === c.trim().toLowerCase())
FindKey(raw, c) ==
    LET hits == {j \in 1..Len(raw) : TrimLower(raw[j].k) = TrimLower(c)}
    IN  IF hits = {} THEN Undefined
        ELSE raw[CHOOSE j \in hits : \A m \in hits : j <= m].k

\* normMap[nc]: the reduce keeps the last key that normalises to nc.
NormGet(raw, nc) ==
    LET hits == {j \in 1..Len(raw) : NormKey(raw[j].k) = nc}
    IN  IF hits = {} THEN Undefined
        ELSE raw[CHOOSE j \in hits : \A m \in hits : j >= m].v

RECURSIVE PickFuzzy(_, _)
PickFuzzy(raw, candidates) ==
    IF candidates = <<>> THEN ""
    ELSE LET nc == NormKey(Head(candidates))
             v == NormGet(raw, nc)
         IN  IF nc # "" /\ v # Undefined /\ v # "" THEN Trim(v)
             ELSE PickFuzzy(raw, Tail(candidates))

RECURSIVE PickExact(_, _, _)
PickExact(raw, candidates, all) ==
    IF candidates = <<>> THEN PickFuzzy(raw, all)
    ELSE LET key == FindKey(raw, Head(candidates))
         IN  IF key # Undefined /\ RawGet(raw, key) # "" THEN Trim(RawGet(raw, key))
             ELSE PickExact(raw, Tail(candidates), all)

\* pick(raw, candidates) of parseExcelFile
pick(raw, candidates) == PickExact(raw, candidates, candidates)

\* The callback of rawRows.map in parseExcelFile: one row mapped through the
\* header aliases.
ExcelRow ==
    [raw \in RawRows |->
        LET roleRaw == pick(raw, <<"role">>)
        IN  [name |-> pick(raw, <<"name", "full name", "student name">>),
             email |-> pick(raw, <<"email", "e-mail", "mail">>),
             role |-> TrimLower(IF Falsy(roleRaw) THEN "student" ELSE roleRaw)]]

\* parseExcelFile: every row of the first sheet, mapped.
parseExcelFile(rows) == [j \in 1..Len(rows) |-> ExcelRow[rows[j]]]

\* ------------------------------------------------------------ validation
MissingFields == "Missing required fields (name, email)"
InvalidRole == "Invalid role. Must be 'student' or 'coordinator'"

\* RowErrors with the role checked before the required fields.
RowErrors_RoleFirst(studentData, i) ==
    IF studentData.role \notin {"student", "coordinator"}
    THEN <<[row |-> i, reason |-> InvalidRole]>>
    ELSE IF Falsy(studentData.name) \/ Falsy(studentData.email)
    THEN <<[row |-> i, reason |-> MissingFields]>>
    ELSE <<>>

\* The body of the validation loop for row i: <<>> when the row is accepted,
\* else the one entry pushed to errors.
RowErrors(studentData, i) ==
    IF Falsy(studentData.name) \/ Falsy(studentData.email)
    THEN <<[row |-> i, reason |-> MissingFields]>>
    ELSE IF studentData.role \notin {"student", "coordinator"}
    THEN <<[row |-> i, reason |-> InvalidRole]>>
    ELSE <<>>

RECURSIVE ValidateFrom(_, _)
\* The validation loop from row i on: [validatedStudents, errors].
ValidateFrom(studentsData, i) ==
    IF i > Len(studentsData) THEN [validatedStudents |-> <<>>, errors |-> <<>>]
    ELSE LET e == RowErrors(studentsData[i], i)
             rest == ValidateFrom(studentsData, i + 1)
         IN  IF e # <<>>
             THEN [validatedStudents |-> rest.validatedStudents,
                   errors |-> e \o rest.errors]
             ELSE [validatedStudents |->
                       <<[name |-> studentsData[i].name,
                          email |-> studentsData[i].email,
                          role |-> studentsData[i].role]>> \o rest.validatedStudents,
                   errors |-> rest.errors]

\* ------------------------------------------- companies and applications
\* The JavaScript value null.
Null == "<null>"

\* Company documents the collection can hold: _id and name.
AllCompanies == {[id |-> "c1", name |-> "Acme Corp"], [id |-> "c2", name |-> "Beta"]}

\* What findById resolves with when no document has the id (null).
NoCompany == [id |-> Null, name |-> Null]

\* Values of req.params.id: the ids of the companies, and a string that is
\* no ObjectId (findById rejects with a CastError).
MalformedId == "not-an-id"
IdParams == {c.id : c \in AllCompanies} \cup {MalformedId}

\* Stored resume references of applications.
ResumeA == "https://res.cloudinary.com/demo/raw/upload/v1/placement/resumes/a.pdf"
ResumeB == "https://res.cloudinary.com/demo/image/upload/v1/placement/resumes/b.pdf"
ResumeOutside == "https://res.cloudinary.com/demo/raw/upload/v1/avatars/x.png"
ResumeBroken == "resume.pdf"
Resumes == {Undefined, "", ResumeA, ResumeB, ResumeOutside, ResumeBroken}

\* getCloudinaryId(url) of utils/helperPublicId: the public id and resource
\* type a Cloudinary URL names; both null when the URL cannot be parsed.
getCloudinaryId(url) ==
    CASE url = ResumeA -> [publicId |-> "placement/resumes/a.pdf", resourceType |-> "raw"]
      [] url = ResumeB -> [publicId |-> "placement/resumes/b", resourceType |-> "image"]
      [] url = ResumeOutside -> [publicId |-> "avatars/x.png", resourceType |-> "raw"]
      [] OTHER -> [publicId |-> Null, resourceType |-> Null]

\* The folder resumes are uploaded to.
ResumeFolder == "placement/resumes"

\* InResumeFolder without the startsWith check: any parsed id passes.
InResumeFolder_AnyId(publicId) == publicId # Null

\* publicId && publicId.startsWith('placement/resumes')
InResumeFolder(publicId) == publicId # Null /\ StartsWith(publicId, ResumeFolder)

\* ApplicationsOf as a find with no filter: every application is returned.
ApplicationsOf_All(apps, id) == apps

\* Application.find({ companyId: id }): the company's applications, in
\* collection order.
ApplicationsOf(apps, id) == SelectSeq(apps, LAMBDA a : a.companyId = id)

\* MapSet on an array instead of a Map: every reference adds an entry.
MapSet_Append(entries, publicId, resourceType) ==
    Append(entries, [publicId |-> publicId, resourceType |-> resourceType])

\* idMap.set(publicId, resourceType), idMap kept as its entries in insertion
\* order: an existing key keeps its place and takes the new value.
MapSet(entries, publicId, resourceType) ==
    IF \E j \in 1..Len(entries) : entries[j].publicId = publicId
    THEN [j \in 1..Len(entries) |->
            IF entries[j].publicId = publicId
            THEN [publicId |-> publicId, resourceType |-> resourceType]
            ELSE entries[j]]
    ELSE Append(entries, [publicId |-> publicId, resourceType |-> resourceType])

RECURSIVE CollectIds(_, _)
\* The loop of deleteCompany over the applications found: idMap's entries.
CollectIds(apps, entries) ==
    IF apps = <<>> THEN entries
    ELSE LET app == Head(apps)
             ref == getCloudinaryId(app.resume)
         IN  IF Falsy(app.resume) THEN CollectIds(Tail(apps), entries)
             ELSE IF InResumeFolder(ref.publicId)
             THEN CollectIds(Tail(apps),
                     MapSet(entries, ref.publicId,
                            IF ref.resourceType = Null THEN "raw" ELSE ref.resourceType))
             ELSE CollectIds(Tail(apps), entries)

RECURSIVE CollectZipIds(_)
\* The loop of the two zip handlers: resumePublicIds (an array: no
\* deduplication).
CollectZipIds(apps) ==
    IF apps = <<>> THEN <<>>
    ELSE LET app == Head(apps)
             ref == getCloudinaryId(app.resume)
         IN  IF Falsy(app.resume) THEN CollectZipIds(Tail(apps))
             ELSE IF InResumeFolder(ref.publicId)
             THEN <<ref.publicId>> \o CollectZipIds(Tail(apps))
             ELSE CollectZipIds(Tail(apps))

\* Results a destroy call can settle with: the promise resolved with result
\* 'ok', 'not found' or something else, or the promise rejected.
DestroyOutcomes == {"ok", "not found", "error", "rejected"}

\* ------------------------------------------------------------------ state
VARIABLES
    students,           \* Student collection: the stored documents' emails, in insertion order
    nreq,               \* ingestion requests received so far
    ireq,               \* req.file of the ingestion request being served
    tmpFile,            \* whether multer's temporary file of that request is on disk
    ipc,                \* position of registerStudentsFromFile
    validatedStudents,  \* its validatedStudents array
    i,                  \* index of the insert loop (1-based)
    insertResults,      \* its insertResults array
    insertErrors,       \* its insertErrors array
    iresp,              \* the response it sent (status 0: none yet)
    saveCalls,          \* rows for which Student.save was called, in call order
    studentsBefore      \* the Student collection when the request arrived

ingestVars ==
    <<students, nreq, ireq, tmpFile, ipc, validatedStudents, i, insertResults,
      insertErrors, iresp, saveCalls, studentsBefore>>

VARIABLES
    companies,          \* Company collection: the stored documents
    applications,       \* Application collection: [companyId, resume], in collection order
    dpc,                \* position of deleteCompany
    did,                \* its req.params.id
    existingCompany,    \* its existingCompany (NoCompany before the lookup)
    idMap,              \* its idMap, as entries [publicId, resourceType] in insertion order
    tasks,              \* its destroyTasks: "pending" or the outcome, one per entry
    resumesDeleted,     \* its resumesDeleted counter
    applicationsDeleted,\* deletedCount of its deleteMany
    dresp,              \* the response it sent (status 0: none yet)
    destroyCalls,       \* cloudinary.uploader.destroy calls it issued, in call order
    storeError,         \* whether a call to the record store threw in this request
    companiesBefore,    \* the Company collection when the request arrived
    applicationsBefore, \* the Application collection when the request arrived
    zpc,                \* position of the zip handler being served
    zkind,              \* "all": downloadAllResumesZip, "company": downloadCompanyResumesZip
    zid,                \* req.params.id of downloadCompanyResumesZip
    zcompany,           \* its company (NoCompany before the lookup)
    zresp,              \* status of the response the zip handler sent (0: none yet)
    zstoreError,        \* whether a call to the record store threw in the zip handler
    zipCalls            \* cloudinary.utils.download_zip_url calls it issued

cascadeVars ==
    <<companies, applications, dpc, did, existingCompany, idMap, tasks, resumesDeleted,
      applicationsDeleted, dresp, destroyCalls, storeError, companiesBefore,
      applicationsBefore>>

zipVars == <<zpc, zkind, zid, zcompany, zresp, zstoreError, zipCalls>>

VARIABLES
    creq                \* createCompany / updateCompany requests: for each, its kind,
                        \* req.params.id, req.body.name, whether the rest of the body
                        \* passes the field checks, the await it is at, and the status sent

companyVars == <<creq>>

CompanyRequests == 1..MaxCompanyRequests

\* A request that has not reached the server.
NoCompanyRequest ==
    [kind |-> "none", id |-> Null, name |-> Undefined, bodyOk |-> TRUE, pc |-> "new",
     status |-> 0]

NoCleanup ==
    [status |-> 0, applicationsDeleted |-> 0, resumesRequested |-> 0,
     resumesDeleted |-> 0]

\* The state of the handlers that serve no request.
IdleHandlers ==
    /\ dpc = "idle"
    /\ did = Null
    /\ existingCompany = NoCompany
    /\ idMap = <<>>
    /\ tasks = <<>>
    /\ resumesDeleted = 0
    /\ applicationsDeleted = 0
    /\ dresp = NoCleanup
    /\ destroyCalls = <<>>
    /\ storeError = FALSE
    /\ companiesBefore = {}
    /\ applicationsBefore = <<>>
    /\ zpc = "idle"
    /\ zkind = "all"
    /\ zid = Null
    /\ zcompany = NoCompany
    /\ zresp = 0
    /\ zstoreError = FALSE
    /\ zipCalls = <<>>
    /\ creq = [r \in CompanyRequests |-> NoCompanyRequest]

NoResponse ==
    [status |-> 0, error |-> "", details |-> <<>>, successful |-> 0, failed |-> 0,
     results |-> <<>>, errors |-> <<>>]

\* res.status(s).json({ error: e, details: d })
ErrorResponse(s, e, d) == [NoResponse EXCEPT !.status = s, !.error = e, !.details = d]

InitIngest ==
    /\ students = <<>>
    /\ nreq = 0
    /\ ireq = NoFile
    /\ tmpFile = FALSE
    /\ ipc = "idle"
    /\ validatedStudents = <<>>
    /\ i = 1
    /\ insertResults = <<>>
    /\ insertErrors = <<>>
    /\ iresp = NoResponse
    /\ saveCalls = <<>>
    /\ studentsBefore = <<>>
    /\ companies = AllCompanies
    /\ applications = <<>>
    /\ IdleHandlers

\* POST /register-students-file reaches the handler: upload.single('file') has
\* stored the uploaded file, if any, under uploads/.
Upload ==
    /\ ipc = "idle"
    /\ nreq < MaxRequests
    /\ \E f \in Files :
        /\ ireq' = f
        /\ tmpFile' = f.present
    /\ nreq' = nreq + 1
    /\ ipc' = "start"
    /\ validatedStudents' = <<>>
    /\ i' = 1
    /\ insertResults' = <<>>
    /\ insertErrors' = <<>>
    /\ iresp' = NoResponse
    /\ saveCalls' = <<>>
    /\ studentsBefore' = students
    /\ UNCHANGED students
    /\ UNCHANGED <<cascadeVars, zipVars, companyVars>>

\* if (!req.file) return 400
RegisterNoFile ==
    /\ ipc = "start"
    /\ ~ireq.present
    /\ iresp' = ErrorResponse(400, "No file uploaded", <<>>)
    /\ ipc' = "done"
    /\ UNCHANGED <<students, nreq, ireq, tmpFile, validatedStudents, i, insertResults,
                   insertErrors, saveCalls, studentsBefore>>
    /\ UNCHANGED <<cascadeVars, zipVars, companyVars>>

\* neither csv nor xlsx/xls: return 400
RegisterUnsupported ==
    /\ ipc = "start"
    /\ ireq.present
    /\ ireq.ext \notin {"csv", "xlsx"}
    /\ iresp' = ErrorResponse(400, "Unsupported file format", <<>>)
    /\ ipc' = "done"
    /\ UNCHANGED <<students, nreq, ireq, tmpFile, validatedStudents, i, insertResults,
                   insertErrors, saveCalls, studentsBefore>>
    /\ UNCHANGED <<cascadeVars, zipVars, companyVars>>

\* The decoder throws (unreadable bytes): the outer catch answers 500.
RegisterParseError ==
    /\ ipc = "start"
    /\ ireq.present
    /\ ireq.ext \in {"csv", "xlsx"}
    /\ iresp' = ErrorResponse(500, "Internal server error", <<>>)
    /\ ipc' = "done"
    /\ UNCHANGED <<students, nreq, ireq, tmpFile, validatedStudents, i, insertResults,
                   insertErrors, saveCalls, studentsBefore>>
    /\ UNCHANGED <<cascadeVars, zipVars, companyVars>>

\* studentsData of the request: the decoder chosen by the file extension.
Decode(f) == IF f.ext = "csv" THEN parseCSVFile(f.rows) ELSE parseExcelFile(f.rows)

\* The validation loop of registerStudentsFromFile over the decoded rows.
Validate(f) == ValidateFrom(Decode(f), 1)

\* RegisterValidate with the errors.length check left out: the accepted rows go
\* on to the insert loop whether or not a row was rejected.
RegisterValidate_NoGate ==
    /\ ipc = "start"
    /\ ireq.present
    /\ ireq.ext \in {"csv", "xlsx"}
    /\ validatedStudents' = Validate(ireq).validatedStudents
    /\ ipc' = "insert"
    /\ UNCHANGED <<students, nreq, ireq, tmpFile, i, insertResults, insertErrors,
                   iresp, saveCalls, studentsBefore>>
    /\ UNCHANGED <<cascadeVars, zipVars, companyVars>>

\* Decoding succeeded; the validation loop runs and, with errors, the batch
\* is rejected (400 with the reasons); else the insert loop starts.
RegisterValidate ==
    /\ ipc = "start"
    /\ ireq.present
    /\ ireq.ext \in {"csv", "xlsx"}
    /\ LET v == Validate(ireq)
       IN  IF Len(v.errors) > 0
           THEN /\ iresp' = ErrorResponse(400, "Validation errors found", v.errors)
                /\ ipc' = "done"
                /\ UNCHANGED validatedStudents
           ELSE /\ validatedStudents' = v.validatedStudents
                /\ ipc' = "insert"
                /\ UNCHANGED iresp
    /\ UNCHANGED <<students, nreq, ireq, tmpFile, i, insertResults, insertErrors,
                   saveCalls, studentsBefore>>
    /\ UNCHANGED <<cascadeVars, zipVars, companyVars>>

\* Whether the insert loop has a row left.
InsertPending == ipc = "insert" /\ i <= Len(validatedStudents)

\* AfterSave with an empty catch block: a failed save leaves no entry.
AfterSave_EmptyCatch(ok, message) ==
    /\ saveCalls' = Append(saveCalls, i)
    /\ IF ok
       THEN insertResults' = Append(insertResults,
                    [row |-> i, email |-> validatedStudents[i].email,
                     name |-> validatedStudents[i].name, status |-> "success"])
       ELSE UNCHANGED insertResults
    /\ UNCHANGED insertErrors
    /\ i' = i + 1
    /\ UNCHANGED <<nreq, ireq, tmpFile, ipc, validatedStudents, iresp, studentsBefore>>

\* The loop's bookkeeping after save() of row i settled.
AfterSave(ok, message) ==
    /\ saveCalls' = Append(saveCalls, i)
    /\ IF ok
       THEN /\ insertResults' = Append(insertResults,
                    [row |-> i, email |-> validatedStudents[i].email,
                     name |-> validatedStudents[i].name, status |-> "success"])
            /\ UNCHANGED insertErrors
       ELSE /\ insertErrors' = Append(insertErrors,
                    [row |-> i, email |-> validatedStudents[i].email,
                     name |-> validatedStudents[i].name, error |-> message,
                     status |-> "failed"])
            /\ UNCHANGED insertResults
    /\ i' = i + 1
    /\ UNCHANGED <<nreq, ireq, tmpFile, ipc, validatedStudents, iresp, studentsBefore>>

\* EmailFree without the unique index on email: every document is admitted.
EmailFree_NoIndex(email) == TRUE

\* Whether the unique index on email admits a document with this email.
EmailFree(email) == \A j \in 1..Len(students) : students[j] # email

\* await newStudent.save() stores the document.
SaveStudentOk ==
    /\ InsertPending
    /\ EmailFree(validatedStudents[i].email)
    /\ students' = Append(students, validatedStudents[i].email)
    /\ AfterSave(TRUE, "")
    /\ UNCHANGED <<cascadeVars, zipVars, companyVars>>

\* SaveStudentDuplicate without the try/catch around save(): the rejection
\* reaches the outer catch, which answers 500 and ends the loop.
SaveStudentDuplicate_Abort ==
    /\ InsertPending
    /\ ~EmailFree(validatedStudents[i].email)
    /\ saveCalls' = Append(saveCalls, i)
    /\ iresp' = ErrorResponse(500, "Internal server error", <<>>)
    /\ ipc' = "done"
    /\ UNCHANGED <<students, nreq, ireq, tmpFile, validatedStudents, i, insertResults,
                   insertErrors, studentsBefore>>
    /\ UNCHANGED <<cascadeVars, zipVars, companyVars>>

\* save() rejects with the unique index's duplicate-key error.
SaveStudentDuplicate ==
    /\ InsertPending
    /\ ~EmailFree(validatedStudents[i].email)
    /\ UNCHANGED students
    /\ AfterSave(FALSE, "E11000 duplicate key error")
    /\ UNCHANGED <<cascadeVars, zipVars, companyVars>>

\* save() rejects for another reason (the store cannot be reached).
SaveStudentStoreError ==
    /\ InsertPending
    /\ UNCHANGED students
    /\ AfterSave(FALSE, "store error")
    /\ UNCHANGED <<cascadeVars, zipVars, companyVars>>

\* The insert loop is over: fs.unlinkSync(filePath), then the 200 report.
RegisterFinish ==
    /\ ipc = "insert"
    /\ i > Len(validatedStudents)
    /\ tmpFile' = FALSE
    /\ iresp' = [NoResponse EXCEPT !.status = 200,
                                   !.successful = Len(insertResults),
                                   !.failed = Len(insertErrors),
                                   !.results = insertResults,
                                   !.errors = insertErrors]
    /\ ipc' = "done"
    /\ UNCHANGED <<students, nreq, ireq, validatedStudents, i, insertResults,
                   insertErrors, saveCalls, studentsBefore>>
    /\ UNCHANGED <<cascadeVars, zipVars, companyVars>>

\* fs.unlinkSync throws (the file cannot be removed): the outer catch answers 500.
RegisterUnlinkError ==
    /\ ipc = "insert"
    /\ i > Len(validatedStudents)
    /\ iresp' = ErrorResponse(500, "Internal server error", <<>>)
    /\ ipc' = "done"
    /\ UNCHANGED <<students, nreq, ireq, tmpFile, validatedStudents, i, insertResults,
                   insertErrors, saveCalls, studentsBefore>>
    /\ UNCHANGED <<cascadeVars, zipVars, companyVars>>

\* The handler has returned: the request and its locals are gone.
RegisterReturn ==
    /\ ipc = "done"
    /\ ipc' = "idle"
    /\ ireq' = NoFile
    /\ validatedStudents' = <<>>
    /\ i' = 1
    /\ insertResults' = <<>>
    /\ insertErrors' = <<>>
    /\ iresp' = NoResponse
    /\ saveCalls' = <<>>
    /\ studentsBefore' = <<>>
    /\ UNCHANGED <<students, nreq, tmpFile>>
    /\ UNCHANGED <<cascadeVars, zipVars, companyVars>>

NextIngest ==
    \/ Upload
    \/ RegisterReturn
    \/ RegisterNoFile
    \/ RegisterUnsupported
    \/ RegisterParseError
    \/ RegisterValidate
    \/ SaveStudentOk
    \/ SaveStudentDuplicate
    \/ SaveStudentStoreError
    \/ RegisterFinish
    \/ RegisterUnlinkError

vars == <<ingestVars, cascadeVars, zipVars, companyVars>>

SpecIngest == InitIngest /\ [][NextIngest]_vars

\* ------------------------------------------------------- deleteCompany
\* Application collections of the model: up to MaxApps documents, each for
\* one of the companies.
ApplicationDocs == [companyId : {c.id : c \in AllCompanies}, resume : Resumes]
ApplicationCollections == UNION {[1..n -> ApplicationDocs] : n \in 0..MaxApps}

\* Company collections of the model: every company, or c2 already gone (its
\* applications, if any, then name a company that is not there).
CompanyCollections == {AllCompanies, {c \in AllCompanies : c.id = "c1"}}

InitCascade ==
    /\ students = <<>>
    /\ nreq = 0
    /\ ireq = NoFile
    /\ tmpFile = FALSE
    /\ ipc = "idle"
    /\ validatedStudents = <<>>
    /\ i = 1
    /\ insertResults = <<>>
    /\ insertErrors = <<>>
    /\ iresp = NoResponse
    /\ saveCalls = <<>>
    /\ studentsBefore = <<>>
    /\ companies \in CompanyCollections
    /\ applications \in ApplicationCollections
    /\ IdleHandlers

\* Company.findById(id)
FindById(id) ==
    IF \E c \in companies : c.id = id
    THEN CHOOSE c \in companies : c.id = id
    ELSE NoCompany

\* DELETE /company/:id reaches the handler.
DeleteRequest ==
    /\ dpc = "idle"
    /\ zpc = "idle"
    /\ \E id \in IdParams : did' = id
    /\ dpc' = "findCompany"
    /\ companiesBefore' = companies
    /\ applicationsBefore' = applications
    /\ UNCHANGED <<companies, applications, existingCompany, idMap, tasks,
                   resumesDeleted, applicationsDeleted, dresp, destroyCalls, storeError>>
    /\ UNCHANGED <<ingestVars, zipVars, companyVars>>

\* res.status(s) of deleteCompany, without a cleanup report.
DeleteFails(s) ==
    /\ dresp' = [NoCleanup EXCEPT !.status = s]
    /\ dpc' = "done"

\* DeleteLookup with the 404 return left out: a missing company goes on to
\* the cascade.
DeleteLookup_NoCheck ==
    /\ dpc = "findCompany"
    /\ IF did = MalformedId
       THEN /\ DeleteFails(400)
            /\ UNCHANGED existingCompany
       ELSE /\ existingCompany' = FindById(did)
            /\ dpc' = "findApplications"
            /\ UNCHANGED dresp
    /\ UNCHANGED <<companies, applications, did, idMap, tasks, resumesDeleted,
                   applicationsDeleted, destroyCalls, storeError, companiesBefore,
                   applicationsBefore>>
    /\ UNCHANGED <<ingestVars, zipVars, companyVars>>

\* await Company.findById(id): a CastError for a malformed id (400), 404 when
\* the company is not there.
DeleteLookup ==
    /\ dpc = "findCompany"
    /\ IF did = MalformedId
       THEN /\ DeleteFails(400)
            /\ UNCHANGED existingCompany
       ELSE IF FindById(did) = NoCompany
       THEN /\ DeleteFails(404)
            /\ UNCHANGED existingCompany
       ELSE /\ existingCompany' = FindById(did)
            /\ dpc' = "findApplications"
            /\ UNCHANGED dresp
    /\ UNCHANGED <<companies, applications, did, idMap, tasks, resumesDeleted,
                   applicationsDeleted, destroyCalls, storeError, companiesBefore,
                   applicationsBefore>>
    /\ UNCHANGED <<ingestVars, zipVars, companyVars>>

\* Array.from(idMap.entries()) of deleteCompany: one destroy task per entry.
DestroyEntries(apps) == CollectIds(apps, <<>>)

\* await Application.find({ companyId: id }), the loop that fills idMap, and
\* the destroy calls, all issued before the handler awaits their settling.
DeleteCollect ==
    /\ dpc = "findApplications"
    /\ LET entries == DestroyEntries(ApplicationsOf(applications, did))
       IN  /\ idMap' = entries
           /\ destroyCalls' = entries
           /\ tasks' = [j \in 1..Len(entries) |-> "pending"]
    /\ dpc' = "destroy"
    /\ UNCHANGED <<companies, applications, did, existingCompany, resumesDeleted,
                   applicationsDeleted, dresp, storeError, companiesBefore,
                   applicationsBefore>>
    /\ UNCHANGED <<ingestVars, zipVars, companyVars>>

\* CountsAsDeleted with the counter bumped for every settled task.
CountsAsDeleted_Always(outcome) == TRUE

\* CountsAsDeleted with only result 'ok' counted.
CountsAsDeleted_OkOnly(outcome) == outcome = "ok"

\* if (r?.result === 'ok' || r?.result === 'not found') resumesDeleted++
CountsAsDeleted(outcome) == outcome \in {"ok", "not found"}

\* DestroySettle without the catch callback and with Promise.all: a rejected
\* destroy reaches the outer catch, which answers 500.
DestroySettle_Uncaught ==
    /\ dpc = "destroy"
    /\ \E j \in 1..Len(tasks) : \E outcome \in DestroyOutcomes :
        /\ tasks[j] = "pending"
        /\ tasks' = [tasks EXCEPT ![j] = outcome]
        /\ resumesDeleted' =
                IF CountsAsDeleted(outcome) THEN resumesDeleted + 1 ELSE resumesDeleted
        /\ IF outcome = "rejected"
           THEN DeleteFails(500)
           ELSE UNCHANGED <<dpc, dresp>>
    /\ UNCHANGED <<companies, applications, did, existingCompany, idMap,
                   applicationsDeleted, destroyCalls, storeError,
                   companiesBefore, applicationsBefore>>
    /\ UNCHANGED <<ingestVars, zipVars, companyVars>>

\* One destroy task settles, in any order among the pending ones: the then
\* callback counts the resource, the catch callback logs the rejection.
DestroySettle ==
    /\ dpc = "destroy"
    /\ \E j \in 1..Len(tasks) : \E outcome \in DestroyOutcomes :
        /\ tasks[j] = "pending"
        /\ tasks' = [tasks EXCEPT ![j] = outcome]
        /\ resumesDeleted' =
                IF CountsAsDeleted(outcome) THEN resumesDeleted + 1 ELSE resumesDeleted
    /\ UNCHANGED <<companies, applications, dpc, did, existingCompany, idMap,
                   applicationsDeleted, dresp, destroyCalls, storeError,
                   companiesBefore, applicationsBefore>>
    /\ UNCHANGED <<ingestVars, zipVars, companyVars>>

\* AllSettled without the wait: the handler goes on while tasks are pending.
AllSettled_Any == TRUE

\* Promise.allSettled(destroyTasks) has resolved.
AllSettled == \A j \in 1..Len(tasks) : tasks[j] # "pending"

RECURSIVE DeleteMany_One(_, _)
\* DeleteMany as deleteOne: only the first matching document goes.
DeleteMany_One(apps, id) ==
    IF apps = <<>> THEN <<>>
    ELSE IF Head(apps).companyId = id THEN Tail(apps)
    ELSE <<Head(apps)>> \o DeleteMany_One(Tail(apps), id)

\* Application.deleteMany({ companyId: id }): what stays in the collection.
DeleteMany(apps, id) == SelectSeq(apps, LAMBDA a : a.companyId # id)

\* await Promise.allSettled(destroyTasks) resumes the handler, then
\* await Application.deleteMany({ companyId: id }).
DeleteApplications ==
    /\ dpc = "destroy"
    /\ AllSettled
    /\ applications' = DeleteMany(applications, did)
    /\ applicationsDeleted' = Len(applications) - Len(DeleteMany(applications, did))
    /\ dpc' = "deleteCompany"
    /\ UNCHANGED <<companies, did, existingCompany, idMap, tasks, resumesDeleted, dresp,
                   destroyCalls, storeError, companiesBefore, applicationsBefore>>
    /\ UNCHANGED <<ingestVars, zipVars, companyVars>>

\* await Company.findByIdAndDelete(id), then the 200 response with the
\* cleanup report.
DeleteCompanyRecord ==
    /\ dpc = "deleteCompany"
    /\ companies' = {c \in companies : c.id # did}
    /\ dresp' = [status |-> 200,
                 applicationsDeleted |-> applicationsDeleted,
                 resumesRequested |-> Len(idMap),
                 resumesDeleted |-> resumesDeleted]
    /\ dpc' = "done"
    /\ UNCHANGED <<applications, did, existingCompany, idMap, tasks, resumesDeleted,
                   applicationsDeleted, destroyCalls, storeError, companiesBefore,
                   applicationsBefore>>
    /\ UNCHANGED <<ingestVars, zipVars, companyVars>>

\* A call to the record store (findById, find, deleteMany, findByIdAndDelete)
\* rejects: the outer catch answers 500.
DeleteStoreError ==
    /\ \/ dpc \in {"findCompany", "findApplications", "deleteCompany"}
       \/ dpc = "destroy" /\ AllSettled
    /\ storeError' = TRUE
    /\ DeleteFails(500)
    /\ UNCHANGED <<companies, applications, did, existingCompany, idMap, tasks,
                   resumesDeleted, applicationsDeleted, destroyCalls, companiesBefore,
                   applicationsBefore>>
    /\ UNCHANGED <<ingestVars, zipVars, companyVars>>

\* The handler has returned: the request and its locals are gone.
DeleteReturn ==
    /\ dpc = "done"
    /\ dpc' = "idle"
    /\ did' = Null
    /\ existingCompany' = NoCompany
    /\ idMap' = <<>>
    /\ tasks' = <<>>
    /\ resumesDeleted' = 0
    /\ applicationsDeleted' = 0
    /\ dresp' = NoCleanup
    /\ destroyCalls' = <<>>
    /\ storeError' = FALSE
    /\ companiesBefore' = {}
    /\ applicationsBefore' = <<>>
    /\ UNCHANGED <<companies, applications>>
    /\ UNCHANGED <<ingestVars, zipVars, companyVars>>

\* ------------------------------------------------------- zip handlers
\* GET /resumes/download-all or GET /resumes/download/:id reaches its handler.
ZipRequest ==
    /\ zpc = "idle"
    /\ dpc = "idle"
    /\ \/ /\ zkind' = "all"
          /\ zid' = Null
          /\ zpc' = "findApplications"
       \/ /\ zkind' = "company"
          /\ \E id \in IdParams : zid' = id
          /\ zpc' = "findCompany"
    /\ UNCHANGED <<zcompany, zresp, zstoreError, zipCalls>>
    /\ UNCHANGED <<ingestVars, cascadeVars, companyVars>>

\* downloadCompanyResumesZip: await Company.findById(companyId); a malformed
\* id rejects and the catch answers 500.
ZipLookup ==
    /\ zpc = "findCompany"
    /\ IF zid = MalformedId
       THEN /\ zresp' = 500
            /\ zpc' = "done"
            /\ UNCHANGED zcompany
       ELSE IF FindById(zid) = NoCompany
       THEN /\ zresp' = 404
            /\ zpc' = "done"
            /\ UNCHANGED zcompany
       ELSE /\ zcompany' = FindById(zid)
            /\ zpc' = "findApplications"
            /\ UNCHANGED zresp
    /\ UNCHANGED <<zkind, zid, zstoreError, zipCalls>>
    /\ UNCHANGED <<ingestVars, cascadeVars, companyVars>>

\* The applications the zip handler reads: all of them, or the company's.
ZipApplications ==
    IF zkind = "all" THEN applications ELSE ApplicationsOf(applications, zid)

\* ZipCollect without the two length checks: download_zip_url is called with
\* whatever the loop collected.
ZipCollect_NoGuard ==
    /\ zpc = "findApplications"
    /\ zipCalls' = Append(zipCalls, CollectZipIds(ZipApplications))
    /\ zresp' = 200
    /\ zpc' = "done"
    /\ UNCHANGED <<zkind, zid, zcompany, zstoreError>>
    /\ UNCHANGED <<ingestVars, cascadeVars, companyVars>>

\* await Application.find(...), the loop that fills resumePublicIds, and the
\* download_zip_url call: 404 without applications or without ids in the
\* resumes folder, else 200 with the link.
ZipCollect ==
    /\ zpc = "findApplications"
    /\ LET apps == ZipApplications
           resumePublicIds == CollectZipIds(apps)
       IN  IF Len(apps) = 0 \/ Len(resumePublicIds) = 0
           THEN /\ zresp' = 404
                /\ UNCHANGED zipCalls
           ELSE /\ zipCalls' = Append(zipCalls, resumePublicIds)
                /\ zresp' = 200
    /\ zpc' = "done"
    /\ UNCHANGED <<zkind, zid, zcompany, zstoreError>>
    /\ UNCHANGED <<ingestVars, cascadeVars, companyVars>>

\* A call to the record store rejects in a zip handler: the catch answers 500.
ZipStoreError ==
    /\ zpc \in {"findCompany", "findApplications"}
    /\ zresp' = 500
    /\ zstoreError' = TRUE
    /\ zpc' = "done"
    /\ UNCHANGED <<zkind, zid, zcompany, zipCalls>>
    /\ UNCHANGED <<ingestVars, cascadeVars, companyVars>>

\* The zip handler has returned.
ZipReturn ==
    /\ zpc = "done"
    /\ zpc' = "idle"
    /\ zkind' = "all"
    /\ zid' = Null
    /\ zcompany' = NoCompany
    /\ zresp' = 0
    /\ zstoreError' = FALSE
    /\ zipCalls' = <<>>
    /\ UNCHANGED <<ingestVars, cascadeVars, companyVars>>

NextCascade ==
    \/ DeleteRequest
    \/ DeleteLookup
    \/ DeleteCollect
    \/ DestroySettle
    \/ DeleteApplications
    \/ DeleteCompanyRecord
    \/ DeleteStoreError
    \/ DeleteReturn
    \/ ZipRequest
    \/ ZipLookup
    \/ ZipCollect
    \/ ZipStoreError
    \/ ZipReturn

SpecCascade == InitCascade /\ [][NextCascade]_vars

\* ------------------------------------------- createCompany / updateCompany
\* Values of req.body.name: absent, a new name, the same name with blanks
\* around it, and the name of a stored company.
CompanyNames == {Undefined, "Gamma", " Gamma ", "Beta"}

\* The _id the store gives the document saved by request r.
NewId(r) == "n" \o ToString(r)

\* The cascade and zip handlers serve no request while companies are edited.
OtherCascadeVars ==
    <<applications, dpc, did, existingCompany, idMap, tasks, resumesDeleted,
      applicationsDeleted, dresp, destroyCalls, storeError, companiesBefore,
      applicationsBefore>>

\* Request r ends with status s.
CompanyResponds(r, s) == creq' = [creq EXCEPT ![r].pc = "done", ![r].status = s]

\* Request r goes on to its next await.
CompanyAwaits(r, pc) == creq' = [creq EXCEPT ![r].pc = pc]

\* POST /company reaches createCompany: the field checks run, then
\* Company.findOne is called.
CreateRequest(r) ==
    /\ creq[r].pc = "new"
    /\ \E name \in CompanyNames, bodyOk \in BOOLEAN :
        creq' = [creq EXCEPT ![r] =
                    [kind |-> "create", id |-> Null, name |-> name, bodyOk |-> bodyOk,
                     pc |-> IF Falsy(name) \/ ~bodyOk THEN "done" ELSE "findOne",
                     status |-> IF Falsy(name) \/ ~bodyOk THEN 400 ELSE 0]]
    /\ UNCHANGED <<companies, OtherCascadeVars>>
    /\ UNCHANGED <<ingestVars, zipVars>>

\* await Company.findOne({ name: name.trim() }) resolves: 409 when a document
\* has the name, else newCompany.save() is called.
CreateFindOne(r) ==
    /\ creq[r].kind = "create"
    /\ creq[r].pc = "findOne"
    /\ IF \E c \in companies : c.name = Trim(creq[r].name)
       THEN CompanyResponds(r, 409)
       ELSE CompanyAwaits(r, "save")
    /\ UNCHANGED <<companies, OtherCascadeVars>>
    /\ UNCHANGED <<ingestVars, zipVars>>

\* await newCompany.save() resolves: the document is stored, 201.
CreateSave(r) ==
    /\ creq[r].pc = "save"
    /\ companies' = companies \cup {[id |-> NewId(r), name |-> Trim(creq[r].name)]}
    /\ CompanyResponds(r, 201)
    /\ UNCHANGED OtherCascadeVars
    /\ UNCHANGED <<ingestVars, zipVars>>

\* PUT /company/:id reaches updateCompany: Company.findById is called.
UpdateRequest(r) ==
    /\ creq[r].pc = "new"
    /\ \E id \in IdParams, name \in CompanyNames, bodyOk \in BOOLEAN :
        creq' = [creq EXCEPT ![r] =
                    [kind |-> "update", id |-> id, name |-> name, bodyOk |-> bodyOk,
                     pc |-> "findById", status |-> 0]]
    /\ UNCHANGED <<companies, OtherCascadeVars>>
    /\ UNCHANGED <<ingestVars, zipVars>>

\* await Company.findById(id) resolves or rejects with a CastError: 400 for
\* an id that is no ObjectId, 404 for no document, 400 for a field that fails
\* its check; then findOne when the name changes, else findByIdAndUpdate.
UpdateFindById(r) ==
    /\ creq[r].pc = "findById"
    /\ IF creq[r].id = MalformedId THEN CompanyResponds(r, 400)
       ELSE IF FindById(creq[r].id) = NoCompany THEN CompanyResponds(r, 404)
       ELSE IF ~creq[r].bodyOk THEN CompanyResponds(r, 400)
       ELSE IF ~Falsy(creq[r].name) /\ Trim(creq[r].name) # FindById(creq[r].id).name
       THEN CompanyAwaits(r, "findDuplicate")
       ELSE CompanyAwaits(r, "findByIdAndUpdate")
    /\ UNCHANGED <<companies, OtherCascadeVars>>
    /\ UNCHANGED <<ingestVars, zipVars>>

\* await Company.findOne({ name: name.trim(), _id: { $ne: id } }) resolves:
\* 409 when another document has the name, else findByIdAndUpdate is called.
UpdateFindDuplicate(r) ==
    /\ creq[r].pc = "findDuplicate"
    /\ IF \E c \in companies : c.name = Trim(creq[r].name) /\ c.id # creq[r].id
       THEN CompanyResponds(r, 409)
       ELSE CompanyAwaits(r, "findByIdAndUpdate")
    /\ UNCHANGED <<companies, OtherCascadeVars>>
    /\ UNCHANGED <<ingestVars, zipVars>>

\* await Company.findByIdAndUpdate(id, updateData, ...) resolves: the document
\* carries the trimmed name when one was given, 200; reading _id of null
\* throws when the document is gone, 500.
UpdateWrite(r) ==
    /\ creq[r].pc = "findByIdAndUpdate"
    /\ IF FindById(creq[r].id) = NoCompany
       THEN /\ CompanyResponds(r, 500)
            /\ UNCHANGED companies
       ELSE /\ companies' =
                {IF c.id = creq[r].id /\ ~Falsy(creq[r].name)
                 THEN [c EXCEPT !.name = Trim(creq[r].name)]
                 ELSE c : c \in companies}
            /\ CompanyResponds(r, 200)
    /\ UNCHANGED OtherCascadeVars
    /\ UNCHANGED <<ingestVars, zipVars>>

\* A call to the record store rejects: the catch answers 500.
CompanyStoreError(r) ==
    /\ creq[r].pc \in {"findOne", "save", "findById", "findDuplicate", "findByIdAndUpdate"}
    /\ CompanyResponds(r, 500)
    /\ UNCHANGED <<companies, OtherCascadeVars>>
    /\ UNCHANGED <<ingestVars, zipVars>>

\* The store holds the two companies and no request has arrived.
InitCompany == InitIngest

\* The handlers are async functions on one event loop: the steps of the
\* requests in flight interleave at their awaits.

NextCompany ==
    \E r \in CompanyRequests :
        \/ CreateRequest(r)
        \/ CreateFindOne(r)
        \/ CreateSave(r)
        \/ UpdateRequest(r)
        \/ UpdateFindById(r)
        \/ UpdateFindDuplicate(r)
        \/ UpdateWrite(r)
        \/ CompanyStoreError(r)

SpecCompany == InitCompany /\ [][NextCompany]_vars

\* ============================================================ properties
\* ------------------------------------------------- bulk student ingestion
\* The rows of the request's file that the validation rules reject.
InvalidRows ==
    {j \in 1..Len(ireq.rows) : RowErrors(Decode(ireq)[j], j) # <<>>}

\* Number of entries of the sequence q that belong to row j.
EntriesOf(q, j) == Cardinality({m \in 1..Len(q) : q[m].row = j})

\* C1: all-or-nothing gate. When at least one row of the uploaded batch
\* fails validation, Student.save is called for no row of the batch, the
\* Student collection is as it was when the request arrived, and the request
\* ends rejected (400) with one reason per failing row.
C1_AllOrNothingGate ==
    (ireq.present /\ ireq.ext \in {"csv", "xlsx"} /\ InvalidRows # {}) =>
        /\ saveCalls = <<>>
        /\ students = studentsBefore
        /\ ipc # "insert"
        /\ (ipc = "done" /\ iresp.status # 500) =>
                /\ iresp.status = 400
                /\ Len(iresp.details) = Cardinality(InvalidRows)
                /\ \A m \in 1..Len(iresp.details) : iresp.details[m].row \in InvalidRows

\* A batch of two rows, one acceptable and one not, has been rejected.
C1_Witness ==
    /\ ipc = "done"
    /\ iresp.status = 400
    /\ Len(ireq.rows) = 2
    /\ Cardinality(InvalidRows) = 1
    /\ saveCalls = <<>>

\* C4: partition law. When an ingestion request completes (the 200 report),
\* successful + failed equals the number of input rows, and every input row
\* has exactly one entry, in results (Success) or in errors (Failure).
C4_PartitionLaw ==
    iresp.status = 200 =>
        /\ iresp.successful + iresp.failed = Len(ireq.rows)
        /\ iresp.successful = Len(iresp.results)
        /\ iresp.failed = Len(iresp.errors)
        /\ \A j \in 1..Len(ireq.rows) :
                EntriesOf(iresp.results, j) + EntriesOf(iresp.errors, j) = 1
        /\ \A m \in 1..Len(iresp.results) : iresp.results[m].status = "success"
        /\ \A m \in 1..Len(iresp.errors) : iresp.errors[m].status = "failed"

\* A completed request of two rows with one Success and one Failure.
C4_Witness ==
    /\ iresp.status = 200
    /\ Len(ireq.rows) = 2
    /\ iresp.successful = 1
    /\ iresp.failed = 1

\* C5: row-independent persistence. In a batch that passed validation, save
\* is attempted once per row, in row order; a failed save is recorded as the
\* Failure of its row, and the request does not end before every row has had
\* its attempt.
C5_RowIndependentPersistence ==
    (ipc \in {"insert", "done"} /\ validatedStudents # <<>>) =>
        /\ saveCalls = [j \in 1..(i - 1) |-> j]
        /\ \A j \in 1..(i - 1) :
                EntriesOf(insertResults, j) + EntriesOf(insertErrors, j) = 1
        /\ ipc = "done" =>
                /\ i - 1 = Len(validatedStudents)
                /\ Len(validatedStudents) = Len(ireq.rows)

\* The save of row 1 failed on a duplicate email and the save of row 2 was
\* still attempted, and succeeded.
C5_Witness ==
    /\ ipc = "done"
    /\ iresp.status = 200
    /\ saveCalls = <<1, 2>>
    /\ EntriesOf(insertErrors, 1) = 1
    /\ insertErrors[1].error = "E11000 duplicate key error"
    /\ EntriesOf(insertResults, 2) = 1

\* ------------------------------------------------ cascading deletion
\* Destroy tasks of the request that settled as failures.
FailedTasks == {j \in 1..Len(tasks) : tasks[j] \in {"error", "rejected"}}

\* Destroy tasks of the request that settled with result 'ok' or 'not found'.
GoneTasks == {j \in 1..Len(tasks) : tasks[j] \in {"ok", "not found"}}

\* The public ids, inside the resumes folder, that the resumes of the
\* applications apps name.
FolderIds(apps) ==
    {id \in {getCloudinaryId(apps[j].resume).publicId :
                j \in {m \in 1..Len(apps) : ~Falsy(apps[m].resume)}} :
        id # Null /\ StartsWith(id, ResumeFolder)}

\* C2: cascade completeness. When deleteCompany answers 200, the Application
\* collection holds no document with the company's id, whatever the destroy
\* calls settled with.
C2_CascadeCompleteness ==
    dresp.status = 200 => ApplicationsOf(applications, did) = <<>>

\* A company with two applications was deleted although one destroy call
\* rejected and the other resolved with an error result.
C2_Witness ==
    /\ dresp.status = 200
    /\ Len(ApplicationsOf(applicationsBefore, did)) = 2
    /\ \E j \in 1..Len(tasks) : tasks[j] = "rejected"
    /\ \E j \in 1..Len(tasks) : tasks[j] = "error"

\* C3: cleanup failures never fail the operation. A request for a company
\* that exists ends, unless a record-store call threw, with 200 and the
\* company removed, whichever destroy calls failed.
C3_CleanupNeverFails ==
    (dpc = "done" /\ existingCompany # NoCompany /\ ~storeError) =>
        /\ dresp.status = 200
        /\ FindById(did) = NoCompany

\* Every destroy call of a request failed, and the request ended 200 with the
\* company removed.
C3_Witness ==
    /\ dpc = "done"
    /\ dresp.status = 200
    /\ Len(tasks) = 2
    /\ FailedTasks = {1, 2}
    /\ \E j \in 1..2 : tasks[j] = "rejected"
    /\ FindById(did) = NoCompany

\* C6: a request for a company that is not in the collection issues no
\* destroy call, leaves both collections as they were and, unless the lookup
\* itself threw, answers 404.
C6_MissingCompany ==
    (dpc # "idle" /\ did # MalformedId /\ ~(\E c \in companiesBefore : c.id = did)) =>
        /\ destroyCalls = <<>>
        /\ applications = applicationsBefore
        /\ companies = companiesBefore
        /\ (dpc = "done" /\ ~storeError) => dresp.status = 404

\* A request for a missing company, while applications that name it and hold
\* a resume in the folder are stored, ended 404.
C6_Witness ==
    /\ dpc = "done"
    /\ dresp.status = 404
    /\ FolderIds(ApplicationsOf(applications, did)) # {}

\* C7: resumesDeleted never exceeds resumesRequested: a destroy that failed
\* is not counted, in whatever order the destroy calls settle; so it holds of
\* the cleanup report.
C7_DeletedAtMostRequested ==
    /\ resumesDeleted + Cardinality(FailedTasks) <= Len(idMap)
    /\ dresp.status = 200 =>
            /\ dresp.resumesRequested = Len(idMap)
            /\ dresp.resumesDeleted <= dresp.resumesRequested
            /\ dresp.resumesDeleted + Cardinality(FailedTasks) <= dresp.resumesRequested

\* A report with two resources requested and one deleted: the first destroy
\* call failed, the second did not.
C7_Witness ==
    /\ dresp.status = 200
    /\ dresp.resumesRequested = 2
    /\ dresp.resumesDeleted = 1
    /\ tasks[1] \in {"error", "rejected"}

\* C8: idempotent cleanup. The reported resumesDeleted is the number of
\* destroy calls that resolved with result 'ok' or 'not found'.
C8_IdempotentCleanup ==
    dresp.status = 200 => dresp.resumesDeleted = Cardinality(GoneTasks)

\* A report that counts a 'not found' and an 'ok'.
C8_Witness ==
    /\ dresp.status = 200
    /\ dresp.resumesDeleted = 2
    /\ \E j \in 1..Len(tasks) : tasks[j] = "not found"
    /\ \E j \in 1..Len(tasks) : tasks[j] = "ok"

\* C9: deduplication. Once the applications are read, resumesRequested (the
\* size of idMap) is the number of distinct public ids inside the folder
\* among the company's applications, and the destroy calls are one per such
\* id.
C9_Deduplication ==
    (dpc \in {"destroy", "deleteCompany"} \/ dresp.status = 200) =>
        LET ids == FolderIds(ApplicationsOf(applicationsBefore, did))
        IN  /\ Len(idMap) = Cardinality(ids)
            /\ Len(destroyCalls) = Cardinality(ids)
            /\ {destroyCalls[j].publicId : j \in 1..Len(destroyCalls)} = ids
            /\ dresp.status = 200 => dresp.resumesRequested = Cardinality(ids)

\* Two applications of the company share one resume: one resource requested.
C9_Witness ==
    /\ dresp.status = 200
    /\ Len(ApplicationsOf(applicationsBefore, did)) = 2
    /\ \A j \in 1..2 : ApplicationsOf(applicationsBefore, did)[j].resume = ResumeA
    /\ dresp.resumesRequested = 1
    /\ Len(destroyCalls) = 1

\* C10: namespace boundary. Every destroy call, and every id handed to
\* download_zip_url, is for a public id that begins with 'placement/resumes'.
C10_NamespaceBoundary ==
    /\ \A j \in 1..Len(destroyCalls) :
            StartsWith(destroyCalls[j].publicId, ResumeFolder)
    /\ \A j \in 1..Len(zipCalls) : \A m \in 1..Len(zipCalls[j]) :
            StartsWith(zipCalls[j][m], ResumeFolder)

\* The company has an application whose resume lies outside the folder and
\* one whose resume lies inside: one destroy call was issued.
C10_Witness ==
    /\ dpc = "destroy"
    /\ Len(destroyCalls) = 1
    /\ \E j \in 1..Len(applications) :
            /\ applications[j].companyId = did
            /\ applications[j].resume = ResumeOutside

\* ------------------------------------------------- normalization of rows
\* The response that rejects a batch in the validation phase.
BatchRejected == iresp.status = 400 /\ iresp.error = "Validation errors found"

\* The cell of column col (1: name, 2: email, 3: role) of row j of the
\* request's file.
CellOf(j, col) == ireq.rows[j][col].v

\* C11: role default. A row whose role cell is empty, in a CSV or an Excel
\* file, reaches validation with role 'student': it is never rejected with
\* 'invalid role'.
C11_RoleDefault ==
    BatchRejected =>
        \A m \in 1..Len(iresp.details) :
            iresp.details[m].reason = InvalidRole =>
                CellOf(iresp.details[m].row, 3) # ""

\* C12: normalize before validate. A row with non-empty name and email cells
\* under accepted header variants, in a CSV or an Excel file, is never
\* rejected for missing required fields.
C12_NormalizeBeforeValidate ==
    BatchRejected =>
        \A m \in 1..Len(iresp.details) :
            iresp.details[m].reason = MissingFields =>
                \/ CellOf(iresp.details[m].row, 1) = ""
                \/ CellOf(iresp.details[m].row, 2) = ""

\* ------------------------------------------------------ email uniqueness
\* Rows of the batch whose save succeeded so far.
SavedRows == {insertResults[m].row : m \in 1..Len(insertResults)}

\* Emails stored before the save of row j was attempted: those stored when
\* the request arrived and those of the rows saved before j.
StoredBefore(j) ==
    {studentsBefore[m] : m \in 1..Len(studentsBefore)}
    \cup {validatedStudents[k].email : k \in {r \in SavedRows : r < j}}

\* Rows of the batch that repeat no email of an earlier row nor of a student
\* stored when the request arrived.
NewEmailRows ==
    {j \in 1..Len(validatedStudents) :
        /\ validatedStudents[j].email \notin
                {studentsBefore[m] : m \in 1..Len(studentsBefore)}
        /\ \A k \in 1..(j - 1) : validatedStudents[k].email # validatedStudents[j].email}

\* The Failure entry of row j, if it has one, carries the duplicate-key reason.
ConflictFailure(j) ==
    \E m \in 1..Len(insertErrors) :
        /\ insertErrors[m].row = j
        /\ insertErrors[m].error = "E11000 duplicate key error"

\* No two stored students share an email.
UniqueEmails ==
    \A a, b \in 1..Len(students) : a # b => students[a] # students[b]

\* C13 as stated: in a completed batch every row that repeats the email of an
\* earlier row or of a stored student is a conflict Failure, successful is the
\* number of rows that introduced a new email, and stored emails are unique.
C13_AsStated ==
    /\ UniqueEmails
    /\ iresp.status = 200 =>
            /\ \A j \in 1..Len(validatedStudents) :
                    j \notin NewEmailRows => (ConflictFailure(j) /\ j \notin SavedRows)
            /\ iresp.successful = Cardinality(NewEmailRows)

\* Row j has a Failure entry.
Failure(j) == \E m \in 1..Len(insertErrors) : insertErrors[m].row = j

\* C13, amended: a row whose email is that of a stored student (stored before
\* the request, or by an earlier row of the batch) is a Failure, with the
\* reason the store gave, and is not stored; successful is the number of
\* documents the request stored, each of them for a row whose email was not
\* stored until then; stored emails are unique.
C13_EmailUniqueness ==
    /\ UniqueEmails
    /\ ipc \in {"insert", "done"} =>
            /\ \A j \in 1..(i - 1) :
                    validatedStudents[j].email \in StoredBefore(j) =>
                        (Failure(j) /\ j \notin SavedRows)
            /\ \A j \in SavedRows : validatedStudents[j].email \notin StoredBefore(j)
            /\ Len(students) = Len(studentsBefore) + Len(insertResults)
            /\ \A m \in 1..Len(insertResults) :
                    students[Len(studentsBefore) + m] = insertResults[m].email
    /\ iresp.status = 200 =>
            iresp.successful = Len(students) - Len(studentsBefore)

\* Two rows with the same email passed validation: one Success, one Failure
\* with the duplicate-key reason.
C13_Witness ==
    /\ iresp.status = 200
    /\ Len(validatedStudents) = 2
    /\ validatedStudents[1].email = validatedStudents[2].email
    /\ iresp.successful = 1
    /\ iresp.failed = 1
    /\ ConflictFailure(2)

\* ------------------------------------------------------------ zip links
\* The company of a downloadCompanyResumesZip request is not in the collection.
ZipCompanyMissing == zkind = "company" /\ FindById(zid) = NoCompany

\* C14: empty-input guard. A zip handler whose applications name no public id
\* inside the resumes folder (no application, no resume, none in the folder)
\* answers 404 and never calls download_zip_url; so does
\* downloadCompanyResumesZip for a company that is not there.
C14_EmptyInputGuard ==
    /\ \A j \in 1..Len(zipCalls) : zipCalls[j] # <<>>
    /\ zipCalls # <<>> => (~ZipCompanyMissing /\ FolderIds(ZipApplications) # {})
    /\ (/\ zpc = "done"
        /\ ~zstoreError
        /\ zid # MalformedId
        /\ (ZipCompanyMissing \/ FolderIds(ZipApplications) = {}))
            => (zresp = 404 /\ zipCalls = <<>>)

\* The company exists and has applications, none with a resume inside the
\* folder: 404 without a call.
C14_Witness ==
    /\ zpc = "done"
    /\ zkind = "company"
    /\ zcompany # NoCompany
    /\ Len(ZipApplications) > 0
    /\ \E j \in 1..Len(ZipApplications) : ZipApplications[j].resume = ResumeOutside
    /\ zresp = 404
    /\ zipCalls = <<>>

\* ------------------------------------------------------ authoritative delete
\* C15: atomic authoritative delete. A deleteCompany request that found its
\* company ends either with the company's applications and the company record
\* both removed, or with neither removed.
C15_AtomicDelete ==
    (dpc = "done" /\ existingCompany # NoCompany) =>
        \/ /\ ApplicationsOf(applications, did) = <<>>
           /\ FindById(did) = NoCompany
        \/ /\ applications = applicationsBefore
           /\ companies = companiesBefore

\* C16: ordering of the cascade. A step removes an application record or a
\* company record only when every issued destroy call has settled, and the
\* company record goes only when none of its applications is left.
C16_CascadeOrdering ==
    [][/\ (applications' # applications \/ companies' # companies) =>
              \A j \in 1..Len(tasks) : tasks[j] \in DestroyOutcomes
       /\ companies' # companies => ApplicationsOf(applications, did) = <<>>]_vars

\* Two destroy calls were issued, one of them failed, and the applications
\* are gone while the company record is still there.
C16_Witness ==
    /\ dpc = "deleteCompany"
    /\ Len(tasks) = 2
    /\ \E j \in 1..Len(tasks) : tasks[j] \in {"error", "rejected"}
    /\ applications # applicationsBefore
    /\ companies = companiesBefore

\* ------------------------------------------------------- validation order
\* Row j as the validation loop reads it.
DecodedRow(j) == Decode(ireq)[j]
LacksRequired(j) == Falsy(DecodedRow(j).name) \/ Falsy(DecodedRow(j).email)
RoleAllowed(j) == DecodedRow(j).role \in {"student", "coordinator"}

\* C17: validation is ordered and short-circuiting per row. In a rejected
\* batch every failing row has exactly one reason, carrying its 1-based index:
\* missing required fields when name or email is empty, whatever the role,
\* invalid role otherwise; a row with name, email and an allowed role has none.
C17_OrderedValidation ==
    BatchRejected =>
        /\ \A m \in 1..Len(iresp.details) : iresp.details[m].row \in 1..Len(ireq.rows)
        /\ \A j \in 1..Len(ireq.rows) :
            IF LacksRequired(j)
            THEN /\ EntriesOf(iresp.details, j) = 1
                 /\ \E m \in 1..Len(iresp.details) :
                        iresp.details[m] = [row |-> j, reason |-> MissingFields]
            ELSE IF ~RoleAllowed(j)
            THEN /\ EntriesOf(iresp.details, j) = 1
                 /\ \E m \in 1..Len(iresp.details) :
                        iresp.details[m] = [row |-> j, reason |-> InvalidRole]
            ELSE EntriesOf(iresp.details, j) = 0

\* A rejected batch of two rows: one lacks its name and has a role outside
\* the allowed two, the other is valid.
C17_Witness ==
    /\ BatchRejected
    /\ Len(ireq.rows) = 2
    /\ \E j \in 1..2 :
        /\ LacksRequired(j)
        /\ ~RoleAllowed(j)
        /\ iresp.details = <<[row |-> j, reason |-> MissingFields]>>
        /\ \E k \in 1..2 : k # j /\ ~LacksRequired(k) /\ RoleAllowed(k)

\* ------------------------------------------------------------ empty cascade
\* The company of the request had no application when the request arrived.
NoApplicationsBefore ==
    \A j \in 1..Len(applicationsBefore) : applicationsBefore[j].companyId # did

\* C18: empty cascade. deleteCompany on an existing company with no
\* application issues no destroy call, and when it answers 200 the report
\* carries 0 for all three counts and the company record is gone.
C18_EmptyCascade ==
    (dpc # "idle" /\ existingCompany # NoCompany /\ NoApplicationsBefore) =>
        /\ destroyCalls = <<>>
        /\ tasks = <<>>
        /\ applications = applicationsBefore
        /\ dresp.status = 200 =>
            /\ dresp.applicationsDeleted = 0
            /\ dresp.resumesRequested = 0
            /\ dresp.resumesDeleted = 0
            /\ FindById(did) = NoCompany
            /\ companies = {c \in companiesBefore : c.id # did}

\* The 200 report of an empty cascade, while the other company has an
\* application whose resume lies in the resumes folder.
C18_Witness ==
    /\ dpc = "done"
    /\ dresp.status = 200
    /\ existingCompany # NoCompany
    /\ NoApplicationsBefore
    /\ FolderIds(applicationsBefore) # {}

\* ------------------------------------------------------ company names
\* C19: company-name uniqueness under interleaving. Whatever createCompany
\* and updateCompany requests have run, and however their store calls
\* interleaved, no two company records have the same name.
C19_UniqueCompanyNames ==
    \A a \in companies : \A b \in companies : a.name = b.name => a.id = b.id

\* -------------------------------------------------------- uploaded file
\* C20: temp-file cleanup. When registerStudentsFromFile has answered a
\* request that carried an uploaded file, the temporary file is gone.
C20_TempFileRemoved == (ipc = "done" /\ ireq.present) => ~tmpFile

\* ------------------------------------------------------- error responses
\* C21: error status implies no write. When registerStudentsFromFile has
\* answered 400 or 500, the Student collection is as it was when the request
\* arrived; a request that stored a student has answered 200 with the report.
C21_ErrorImpliesNoWrite ==
    ipc = "done" =>
        /\ iresp.status \in {400, 500} => students = studentsBefore
        /\ students # studentsBefore =>
                (iresp.status = 200 /\ iresp.successful = Len(insertResults))

====
